---- MODULE Spec2Model ----
(***************************************************************************)
(* Retrieval-based memory of langchain_memory/memory_patterns.py: the     *)
(* lazily populated module-level list _snippet_embeddings and the top-k   *)
(* ranking retrieve_relevant computes over it.                            *)
(*                                                                         *)
(* Abstractions.  A float is modelled by a bounded integer (no rounding,  *)
(* no NaN).  A policy snippet is modelled by its index in POLICY_SNIPPETS.*)
(* A query string is modelled by the vector embed_query returns for it.   *)
(* The embedding provider is an external service: the list of vectors it  *)
(* returns for POLICY_SNIPPETS (docVecs) is any list of vectors of one    *)
(* dimension, fixed for the life of the process, since the same model     *)
(* embeds the same texts; the code validates neither its length nor its   *)
(* dimension against the query's.                                         *)
(*                                                                         *)
(* The module also models the other memories of langchain_memory and the  *)
(* guarded chatbot, each with variables of its own and a specification of *)
(* its own: the preference store of memory_patterns.py (SpecPrefs), the   *)
(* JSON store of persistent_memory.py (SpecStore, and SpecStoreConc for   *)
(* two processes), the capped list of short_term_memory.py (SpecChat),    *)
(* the session store of with_memory.py (SpecSession) and one run of       *)
(* chatbot/guardrail-chatbot-ai.py (SpecGuard).  The language model, the  *)
(* guards and the embedding provider are external: what they return, or   *)
(* that they raise, is any value of a small set.                          *)
(***************************************************************************)
EXTENDS Integers, Sequences, FiniteSets, TLC

\* ---------------------------------------------------------------- bounds

\* Vector components range over 0..MaxVal.
MaxVal == 1
\* top_k ranges over MinK..MaxK (MinK is negative: Python accepts it).
MaxK == 5
\* Magnitude of the most negative top_k.
NegK == 1
\* The count of embed_documents executions saturates at MaxEmbedCalls.
MaxEmbedCalls == 3

\* ------------------------------------------------------ program constants

\* len(POLICY_SNIPPETS)
NumSnippets == 4

\* POLICY_SNIPPETS, each text named by its position in the list.
POLICY_SNIPPETS == [i \in 1..NumSnippets |-> i]

\* Threads that may call retrieve_relevant.
Threads == {1, 2}

\* ------------------------------------------------------------ input sets

\* Dimensions of the vectors the embedding provider returns in the model.
Dims == {1, 2}

VecsOfDim(d) == [1..d -> 0..MaxVal]

Vectors == UNION {VecsOfDim(d) : d \in Dims}

SeqsUpTo(S, n) == UNION {[1..m -> S] : m \in 0..n}

\* What embed_documents may return for POLICY_SNIPPETS: up to one vector per
\* text, all of the embedding model's dimension.
DocVecLists == UNION {SeqsUpTo(VecsOfDim(d), NumSnippets) : d \in Dims}

TopKs == (0 - NegK)..MaxK

\* Inputs of the two-thread specification: one-dimensional embeddings.
ConcVectors == VecsOfDim(1)

ConcDocVecLists == SeqsUpTo(ConcVectors, NumSnippets)

ConcTopKs == 0..2

\* ------------------------------------------------------- pure functions

Min(a, b) == IF a <= b THEN a ELSE b

Max(a, b) == IF a >= b THEN a ELSE b

\* Python zip(a, b): pairs up to the shorter argument.
Zip(a, b) == [i \in 1..Min(Len(a), Len(b)) |-> <<a[i], b[i]>>]

RECURSIVE SumFrom(_, _, _)
\* Python sum(): left to right from 0.
SumFrom(s, i, acc) == IF i > Len(s) THEN acc ELSE SumFrom(s, i + 1, acc + s[i])

PySum(s) == SumFrom(s, 1, 0)

\* A faulty _dot that leaves the last pair out of the sum.
DotDropsLast(a, b) ==
    LET pairs == Zip(a, b)
    IN  PySum([i \in 1..(Len(pairs) - 1) |-> pairs[i][1] * pairs[i][2]])

\* _dot(a, b) = sum(x * y for x, y in zip(a, b))
Dot(a, b) ==
    LET pairs == Zip(a, b)
    IN  PySum([i \in 1..Len(pairs) |-> pairs[i][1] * pairs[i][2]])

\* [(_dot(q_embed, vec), text) for vec, text in corpus]
ScoreAll(q, corpus) ==
    [i \in 1..Len(corpus) |-> <<Dot(q, corpus[i][1]), corpus[i][2]>>]

\* A faulty key that sorts ascending by score: key=lambda x: x[0]
SortKeyAscending(x) == x[1]

\* key=lambda x: -x[0]
SortKey(x) == 0 - x[1]

\* A faulty insertion that puts e before the elements of equal key (an
\* unstable sort that reverses ties).
InsertPosBeforeEqual(sorted, e) ==
    Cardinality({j \in 1..Len(sorted) : SortKey(sorted[j]) < SortKey(e)}) + 1

\* Position at which e enters an already sorted list: after every element
\* whose key is not greater (a stable ascending sort by key).
InsertPos(sorted, e) ==
    Cardinality({j \in 1..Len(sorted) : SortKey(sorted[j]) <= SortKey(e)}) + 1

Insert(sorted, e) ==
    LET p == InsertPos(sorted, e)
    IN  SubSeq(sorted, 1, p - 1) \o <<e>> \o SubSeq(sorted, p, Len(sorted))

RECURSIVE SortFrom(_, _, _)
SortFrom(s, i, acc) ==
    IF i > Len(s) THEN acc ELSE SortFrom(s, i + 1, Insert(acc, s[i]))

\* list.sort(key=...): stable, ascending by key.
SortByKey(s) == SortFrom(s, 1, <<>>)

\* A faulty slice that stops one short: s[:k - 1]
SliceOneShort(s, k) ==
    IF k - 1 < 0 THEN SubSeq(s, 1, Max(Len(s) + k - 1, 0))
    ELSE SubSeq(s, 1, Min(k - 1, Len(s)))

\* Python s[:k]
SliceTo(s, k) ==
    IF k < 0 THEN SubSeq(s, 1, Max(Len(s) + k, 0))
    ELSE SubSeq(s, 1, Min(k, Len(s)))

\* [text for _, text in xs]
TextsOf(xs) == [i \in 1..Len(xs) |-> xs[i][2]]

\* ----------------------------------------------------------------- state

VARIABLES
    docVecs,             \* what embeddings.embed_documents(POLICY_SNIPPETS) returns
    snippet_embeddings,  \* the module-level list _snippet_embeddings
    pc,                  \* per thread: where it is in retrieve_relevant
    top_k,               \* per thread: the argument top_k
    vecs,                \* per thread: the local vecs of its _ensure_embeddings
                         \* call (<<>> if it embedded nothing), until it ranks
    q_embed,             \* per thread: the local q_embed
    scored,              \* per thread: the local scored (after the sort)
    result,              \* per thread: the returned list of texts
    embed_calls          \* how many times embed_documents has been executed

retrievalVars ==
    <<docVecs, snippet_embeddings, pc, top_k, vecs, q_embed, scored, result,
      embed_calls>>

\* The preference store of memory_patterns.py.
VARIABLES
    user_prefs,          \* the module-level dict, in insertion order
    pref_op,             \* the tool called last: "none", "get" or "set"
    pref_out,            \* what that call returned
    pref_last            \* for every key ever set, the value set last

prefVars == <<user_prefs, pref_op, pref_out, pref_last>>

\* The JSON store of persistent_memory.py and the run_turn calls on it.
VARIABLES
    store_file,          \* STORE_PATH: whether it exists, and the dict in it
    rt_pc,               \* per process: where its call stands
    rt_op,               \* per process: "run_turn" or "save_history"
    rt_session,          \* per process: session_id
    rt_user,             \* per process: user_text
    rt_reply,            \* per process: the chain's reply
    rt_messages,         \* per process: the caller's list of messages
    rt_data,             \* per process: save_history's local dict
    rt_calls             \* how many calls have been started

storeVars ==
    <<store_file, rt_pc, rt_op, rt_session, rt_user, rt_reply, rt_messages,
      rt_data, rt_calls>>

\* The chat loop of short_term_memory.py.
VARIABLES
    chat_pc,             \* "input" (main's loop) or "invoke" (inside run_chat)
    chat_messages,       \* main's list
    rc_messages,         \* run_chat's list, the history it passes to the chain
    rc_user              \* run_chat's user_text

chatVars == <<chat_pc, chat_messages, rc_messages, rc_user>>

\* One run of the Streamlit script guardrail-chatbot-ai.py.
VARIABLES
    g_pc,                \* where the run stands
    g_prompt,            \* user_input
    g_response,          \* response
    g_calls,             \* the guard and chain calls of this run, in order
    g_shown              \* what this run has put on the page, in order

guardVars == <<g_pc, g_prompt, g_response, g_calls, g_shown>>

\* The session store of with_memory.py.
VARIABLES
    store,               \* session_id -> the history object stored for it
    heap,                \* the history objects created so far: their messages
    sess_returned,       \* what get_session_history returned last
    sess_first           \* session_id -> the object its first request returned

sessionVars == <<store, heap, sess_returned, sess_first>>

vars ==
    <<retrievalVars, prefVars, storeVars, chatVars, guardVars, sessionVars>>

\* What each part of the program leaves alone.
notRetrieval == <<prefVars, storeVars, chatVars, guardVars, sessionVars>>
notPrefs == <<retrievalVars, storeVars, chatVars, guardVars, sessionVars>>
notStore == <<retrievalVars, prefVars, chatVars, guardVars, sessionVars>>
notChat == <<retrievalVars, prefVars, storeVars, guardVars, sessionVars>>
notGuard == <<retrievalVars, prefVars, storeVars, chatVars, sessionVars>>
notSession == <<retrievalVars, prefVars, storeVars, chatVars, guardVars>>

InitWith(docLists) ==
    /\ docVecs \in docLists
    /\ snippet_embeddings = <<>>
    /\ pc = [t \in Threads |-> "idle"]
    /\ top_k = [t \in Threads |-> 0]
    /\ vecs = [t \in Threads |-> <<>>]
    /\ q_embed = [t \in Threads |-> <<>>]
    /\ scored = [t \in Threads |-> <<>>]
    /\ result = [t \in Threads |-> <<>>]
    /\ embed_calls = 0

\* -------------------------------------------------------------- actions

\* retrieve_relevant(query, top_k) is entered and _ensure_embeddings tests
\* "if not _snippet_embeddings".
Call(t, k) ==
    /\ pc[t] \in {"idle", "done"}
    /\ top_k' = [top_k EXCEPT ![t] = k]
    /\ q_embed' = [q_embed EXCEPT ![t] = <<>>]
    /\ scored' = [scored EXCEPT ![t] = <<>>]
    /\ result' = [result EXCEPT ![t] = <<>>]
    /\ pc' = [pc EXCEPT ![t] =
                IF snippet_embeddings = <<>> THEN "embed_documents" ELSE "embed_query"]
    /\ UNCHANGED <<docVecs, snippet_embeddings, vecs, embed_calls,
                 notRetrieval>>

\* vecs = embeddings.embed_documents(POLICY_SNIPPETS)
EmbedDocuments(t) ==
    /\ pc[t] = "embed_documents"
    /\ vecs' = [vecs EXCEPT ![t] = docVecs]
    /\ embed_calls' = Min(embed_calls + 1, MaxEmbedCalls)
    /\ pc' = [pc EXCEPT ![t] = "assign"]
    /\ UNCHANGED <<docVecs, snippet_embeddings, top_k, q_embed, scored, result,
                 notRetrieval>>

\* A faulty population that appends to the shared list one entry at a time:
\* for pair in zip(vecs, POLICY_SNIPPETS): _snippet_embeddings.append(pair)
AssignByAppending(t) ==
    LET full == Zip(vecs[t], POLICY_SNIPPETS)
        n == Len(snippet_embeddings)
    IN  /\ pc[t] = "assign"
        /\ IF n < Len(full)
           THEN /\ snippet_embeddings' = Append(snippet_embeddings, full[n + 1])
                /\ pc' = pc
           ELSE /\ snippet_embeddings' = snippet_embeddings
                /\ pc' = [pc EXCEPT ![t] = "embed_query"]
        /\ UNCHANGED <<docVecs, top_k, vecs, q_embed, scored, result, embed_calls,
                     notRetrieval>>

\* _snippet_embeddings = list(zip(vecs, POLICY_SNIPPETS))
AssignEmbeddings(t) ==
    /\ pc[t] = "assign"
    /\ snippet_embeddings' = Zip(vecs[t], POLICY_SNIPPETS)
    /\ pc' = [pc EXCEPT ![t] = "embed_query"]
    /\ UNCHANGED <<docVecs, top_k, vecs, q_embed, scored, result, embed_calls,
                 notRetrieval>>

\* The corpus reordered as a scored list is: entry i is the corpus entry of
\* the i-th text of scored.
ReorderAs(corpus, sc) ==
    [i \in 1..Len(sc) |->
        corpus[CHOOSE j \in 1..Len(corpus) : corpus[j][2] = sc[i][2]]]

\* A faulty ranking that sorts the shared list in place instead of a fresh
\* list of scores: _snippet_embeddings.sort(key=lambda e: -_dot(q_embed, e[0]))
RankInPlace(t, q) ==
    /\ pc[t] = "embed_query"
    /\ q_embed' = [q_embed EXCEPT ![t] = q]
    /\ scored' = [scored EXCEPT ![t] = SortByKey(ScoreAll(q, snippet_embeddings))]
    /\ snippet_embeddings' = ReorderAs(snippet_embeddings, scored'[t])
    /\ result' = [result EXCEPT ![t] = TextsOf(SliceTo(scored'[t], top_k[t]))]
    /\ vecs' = [vecs EXCEPT ![t] = <<>>]
    /\ pc' = [pc EXCEPT ![t] = "done"]
    /\ UNCHANGED <<docVecs, top_k, embed_calls,
                 notRetrieval>>

\* q_embed = embeddings.embed_query(query); scored = [...];
\* scored.sort(key=...); return [text for _, text in scored[:top_k]].
\* embed_query touches only the local q_embed, so it is taken together with
\* the read of _snippet_embeddings that follows it.
Rank(t, q) ==
    /\ pc[t] = "embed_query"
    /\ q_embed' = [q_embed EXCEPT ![t] = q]
    /\ scored' = [scored EXCEPT ![t] = SortByKey(ScoreAll(q, snippet_embeddings))]
    /\ result' = [result EXCEPT ![t] = TextsOf(SliceTo(scored'[t], top_k[t]))]
    /\ vecs' = [vecs EXCEPT ![t] = <<>>]
    /\ pc' = [pc EXCEPT ![t] = "done"]
    /\ UNCHANGED <<docVecs, snippet_embeddings, top_k, embed_calls,
                 notRetrieval>>

\* ------------------------------------------------- preference store
\* memory_patterns.py keeps the user's preferences in a module-level dict
\* and exposes it through two tools.  A Python dict keeps its keys in
\* insertion order, so it is modelled as a sequence of <<key, value>> pairs.
\* A string is modelled as the sequence of the pieces it is formatted from.

PrefKeys == {"theme", "lang", "tz"}

PrefValues == {"dark", "en"}

NO_PREFS == <<"No preferences stored yet.">>

DictKeys(d) == {d[i][1] : i \in 1..Len(d)}

DictIndex(d, k) == CHOOSE i \in 1..Len(d) : d[i][1] = k

\* A store that records every call as a new entry.
DictSetAppends(d, k, v) == Append(d, <<k, v>>)

\* d[k] = v: an existing key keeps its place, a new key goes last.
DictSet(d, k, v) ==
    IF k \in DictKeys(d)
    THEN [d EXCEPT ![DictIndex(d, k)] = <<k, v>>]
    ELSE Append(d, <<k, v>>)

\* f"{k}: {v}"
FormatItem(kv) == <<kv[1], ": ", kv[2]>>

\* sep.join(items)
RECURSIVE Join(_, _)
Join(items, sep) ==
    IF items = <<>> THEN <<>>
    ELSE IF Len(items) = 1 THEN items[1]
    ELSE items[1] \o <<sep>> \o Join(Tail(items), sep)

\* The value get_user_preferences returns for the store d.
PreferencesText(d) ==
    IF d = <<>>
    THEN NO_PREFS
    ELSE Join([i \in 1..Len(d) |-> FormatItem(d[i])], " | ")

\* f"Stored {key}={value}."
StoredText(key, value) == <<"Stored ", key, "=", value, ".">>

PrefInit ==
    /\ user_prefs = <<>>
    /\ pref_op = "none"
    /\ pref_out = <<>>
    /\ pref_last = [k \in {} |-> "dark"]

get_user_preferences ==
    /\ pref_op' = "get"
    /\ pref_out' = PreferencesText(user_prefs)
    /\ UNCHANGED <<user_prefs, pref_last, notPrefs>>

set_user_preference(key, value) ==
    /\ user_prefs' = DictSet(user_prefs, key, value)
    /\ pref_op' = "set"
    /\ pref_out' = StoredText(key, value)
    /\ pref_last' = [k \in DOMAIN pref_last \cup {key} |->
                        IF k = key THEN value ELSE pref_last[k]]
    /\ UNCHANGED notPrefs

\* ------------------------------------------------- persistent memory
\* persistent_memory.py keeps every session's messages in one JSON file.
\* The text of a message is modelled by a number standing for it.

PM_MAX_MESSAGES == 50

\* The most calls one behaviour starts.
MaxCalls == 2

SessionIds == {"a", "b"}

Procs == {1, 2}

UserTexts == {101, 102}

Replies == {201, 202}

HumanMessage(c) == [type |-> "human", content |-> c]

AIMessage(c) == [type |-> "ai", content |-> c]

\* message_to_dict: the type beside the message's own fields.
message_to_dict(m) ==
    [type |-> m.type, data |-> [content |-> m.content, type |-> m.type]]

\* messages_from_dict: the class is chosen by the outer type.
message_from_dict(d) ==
    IF d.type = "human" THEN HumanMessage(d.data.content)
    ELSE AIMessage(d.data.content)

messages_from_dict(raw) == [i \in 1..Len(raw) |-> message_from_dict(raw[i])]

\* messages[:n], which keeps the oldest.
KeepFirst(messages, n) == SubSeq(messages, 1, Min(n, Len(messages)))

\* messages[-n:] for n >= 1
KeepLast(messages, n) ==
    SubSeq(messages, Max(1, Len(messages) - n + 1), Len(messages))

EmptyDict == [k \in {} |-> <<>>]

NoFile == [exists |-> FALSE, data |-> EmptyDict]

FileWith(data) == [exists |-> TRUE, data |-> data]

\* data[key] = value
DictPut(data, key, value) ==
    [k \in DOMAIN data \cup {key} |-> IF k = key THEN value ELSE data[k]]

\* load_history(session_id) on the file f.
load_history(f, session_id) ==
    IF ~f.exists THEN <<>>
    ELSE IF session_id \notin DOMAIN f.data THEN <<>>
    ELSE messages_from_dict(f.data[session_id])

\* A save that stores the whole list.
RawToSaveUncut(messages) ==
    [i \in 1..Len(messages) |-> message_to_dict(messages[i])]

\* The list save_history stores: lines 50-53.
RawToSave(messages) ==
    LET kept == IF Len(messages) > PM_MAX_MESSAGES
                THEN KeepLast(messages, PM_MAX_MESSAGES)
                ELSE messages
    IN [i \in 1..Len(kept) |-> message_to_dict(kept[i])]

\* A conversation of n messages from earlier runs, human and AI in turn.
History(n) ==
    [i \in 1..n |-> IF i % 2 = 1 THEN HumanMessage(i) ELSE AIMessage(i)]

\* Lengths of the history a run finds stored for session "a".
StoredLens == {0} \cup ((PM_MAX_MESSAGES - 3)..PM_MAX_MESSAGES)

\* Lists handed to save_history directly.
SavedLists == {History(n) : n \in {0, PM_MAX_MESSAGES + 1}}

StoreInitFrom(files) ==
    /\ store_file \in files
    /\ rt_pc = [p \in Procs |-> "idle"]
    /\ rt_op = [p \in Procs |-> "none"]
    /\ rt_session = [p \in Procs |-> "a"]
    /\ rt_user = [p \in Procs |-> 0]
    /\ rt_reply = [p \in Procs |-> 0]
    /\ rt_messages = [p \in Procs |-> <<>>]
    /\ rt_data = [p \in Procs |-> EmptyDict]
    /\ rt_calls = 0

StoreIdle == StoreInitFrom({NoFile})

StoreInit ==
    StoreInitFrom({NoFile} \cup
        {FileWith(DictPut(EmptyDict, "a", RawToSave(History(n)))) :
            n \in StoredLens})

\* run_turn, lines 62-63: load the history and append the user's message.
RunTurn(p, session_id, user_text) ==
    /\ rt_pc[p] \in {"idle", "done"}
    /\ rt_calls < MaxCalls
    /\ rt_calls' = rt_calls + 1
    /\ rt_op' = [rt_op EXCEPT ![p] = "run_turn"]
    /\ rt_session' = [rt_session EXCEPT ![p] = session_id]
    /\ rt_user' = [rt_user EXCEPT ![p] = user_text]
    /\ rt_reply' = [rt_reply EXCEPT ![p] = 0]
    /\ rt_messages' = [rt_messages EXCEPT ![p] =
            Append(load_history(store_file, session_id), HumanMessage(user_text))]
    /\ rt_pc' = [rt_pc EXCEPT ![p] = "invoke"]
    /\ UNCHANGED <<store_file, rt_data, notStore>>

\* run_turn, lines 64-66: the chain answers and the reply is appended.
RunTurnInvoke(p, reply) ==
    /\ rt_pc[p] = "invoke"
    /\ rt_reply' = [rt_reply EXCEPT ![p] = reply]
    /\ rt_messages' = [rt_messages EXCEPT ![p] = Append(@, AIMessage(reply))]
    /\ rt_pc' = [rt_pc EXCEPT ![p] = "save"]
    /\ UNCHANGED <<store_file, rt_op, rt_session, rt_user, rt_data, rt_calls,
                   notStore>>

\* save_history called on a list of the caller's own.
SaveHistoryCall(p, session_id, messages) ==
    /\ rt_pc[p] \in {"idle", "done"}
    /\ rt_calls < MaxCalls
    /\ rt_calls' = rt_calls + 1
    /\ rt_op' = [rt_op EXCEPT ![p] = "save_history"]
    /\ rt_session' = [rt_session EXCEPT ![p] = session_id]
    /\ rt_messages' = [rt_messages EXCEPT ![p] = messages]
    /\ rt_user' = [rt_user EXCEPT ![p] = 0]
    /\ rt_reply' = [rt_reply EXCEPT ![p] = 0]
    /\ rt_pc' = [rt_pc EXCEPT ![p] = "save"]
    /\ UNCHANGED <<store_file, rt_data, notStore>>

\* save_history, lines 54-56: read the whole file into data.
SaveRead(p) ==
    /\ rt_pc[p] = "save"
    /\ rt_data' = [rt_data EXCEPT ![p] =
            IF store_file.exists THEN store_file.data ELSE EmptyDict]
    /\ rt_pc' = [rt_pc EXCEPT ![p] = "write"]
    /\ UNCHANGED <<store_file, rt_op, rt_session, rt_user, rt_reply,
                   rt_messages, rt_calls, notStore>>

\* A save that stores the oldest messages.
SaveWriteOldest(p) ==
    /\ rt_pc[p] = "write"
    /\ store_file' = FileWith(DictPut(rt_data[p], rt_session[p],
            [i \in 1..Min(PM_MAX_MESSAGES, Len(rt_messages[p])) |->
                message_to_dict(KeepFirst(rt_messages[p], PM_MAX_MESSAGES)[i])]))
    /\ rt_pc' = [rt_pc EXCEPT ![p] = "done"]
    /\ UNCHANGED <<rt_op, rt_session, rt_user, rt_reply, rt_messages, rt_data,
                   rt_calls, notStore>>

\* A save that writes a file holding the session's entry alone.
SaveWriteAlone(p) ==
    /\ rt_pc[p] = "write"
    /\ store_file' =
            FileWith(DictPut(EmptyDict, rt_session[p], RawToSave(rt_messages[p])))
    /\ rt_pc' = [rt_pc EXCEPT ![p] = "done"]
    /\ UNCHANGED <<rt_op, rt_session, rt_user, rt_reply, rt_messages, rt_data,
                   rt_calls, notStore>>

\* save_history, lines 57-58: set the session's entry and write the file.
SaveWrite(p) ==
    /\ rt_pc[p] = "write"
    /\ store_file' =
            FileWith(DictPut(rt_data[p], rt_session[p], RawToSave(rt_messages[p])))
    /\ rt_pc' = [rt_pc EXCEPT ![p] = "done"]
    /\ UNCHANGED <<rt_op, rt_session, rt_user, rt_reply, rt_messages, rt_data,
                   rt_calls, notStore>>

\* -------------------------------------------------- short-term memory
\* short_term_memory.py: main keeps one list and hands it to run_chat.

STM_MAX_MESSAGES == 20

ChatReplies == {201}

\* A cap that never cuts.
TrimNever(messages) == messages

\* Lines 40-41: if len(messages) > MAX_MESSAGES: messages[-MAX_MESSAGES:]
Trim(messages) ==
    IF Len(messages) > STM_MAX_MESSAGES
    THEN KeepLast(messages, STM_MAX_MESSAGES)
    ELSE messages

ChatInit ==
    /\ chat_pc = "input"
    /\ chat_messages = <<>>
    /\ rc_messages = <<>>
    /\ rc_user = 0

\* run_chat, lines 38-41: the append is made on main's list, the cut is a
\* new list that only run_chat holds.
RunChat(user_text) ==
    /\ chat_pc = "input"
    /\ rc_user' = user_text
    /\ chat_messages' = Append(chat_messages, HumanMessage(user_text))
    /\ rc_messages' = Trim(chat_messages')
    /\ chat_pc' = "invoke"
    /\ UNCHANGED notChat

\* run_chat, lines 42-44, and main's line 57: the reply is appended and the
\* returned list becomes main's list.
RunChatReturn(reply) ==
    /\ chat_pc = "invoke"
    /\ chat_messages' = Append(rc_messages, AIMessage(reply))
    /\ rc_messages' = <<>>
    /\ rc_user' = 0
    /\ chat_pc' = "input"
    /\ UNCHANGED notChat

\* -------------------------------------------------- guardrail chatbot
\* guardrail-chatbot-ai.py: Streamlit runs the script from the top on every
\* interaction; st.stop() ends the run.

Prompts == {"p1", "p2", "p3", "p4"}

Responses == {"r1", "r2", "r3", "r4"}

\* str(e) of the exceptions a guard or the chain raises.
ErrorTexts ==
    {"Jailbreak detected", "Validation failed", "guard unavailable", "timeout",
     "connection refused"}

\* "jailbreak" in str(e).lower() or "validation" in ... or "guard" in ...
MentionsGuard(e) ==
    e \in {"Jailbreak detected", "Validation failed", "guard unavailable"}

CallOf(fn, arg, raised) == [fn |-> fn, arg |-> arg, raised |-> raised]

Shown(kind, text) == [kind |-> kind, text |-> text]

GuardInit ==
    /\ g_pc = "idle"
    /\ g_prompt = ""
    /\ g_response = ""
    /\ g_calls = <<>>
    /\ g_shown = <<>>

\* Lines 21-54: a run starts with an empty page; without the API key it
\* stops, without input it ends.
ScriptRun(has_key, user_input) ==
    /\ g_pc \in {"idle", "stopped", "end"}
    /\ g_calls' = <<>>
    /\ g_response' = ""
    /\ IF ~has_key
       THEN /\ g_shown' = <<Shown("error", "OPENAI_API_KEY is not set")>>
            /\ g_prompt' = ""
            /\ g_pc' = "stopped"
       ELSE /\ g_shown' = <<>>
            /\ g_prompt' = user_input
            /\ g_pc' = IF user_input = "" THEN "end" ELSE "validate_input"
    /\ UNCHANGED notGuard

\* Line 57: input_guard.validate returns.
InputPasses ==
    /\ g_pc = "validate_input"
    /\ g_calls' = Append(g_calls, CallOf("input_guard.validate", g_prompt, FALSE))
    /\ g_pc' = "invoke"
    /\ UNCHANGED <<g_prompt, g_response, g_shown, notGuard>>

\* A handler that reports the error and goes on.
InputRaisesGoesOn(e) ==
    /\ g_pc = "validate_input"
    /\ g_calls' = Append(g_calls, CallOf("input_guard.validate", g_prompt, TRUE))
    /\ g_shown' = Append(g_shown, Shown("error", e))
    /\ g_pc' = "invoke"
    /\ UNCHANGED <<g_prompt, g_response, notGuard>>

\* Lines 57-64: input_guard.validate raises e.
InputRaises(e) ==
    /\ g_pc = "validate_input"
    /\ g_calls' = Append(g_calls, CallOf("input_guard.validate", g_prompt, TRUE))
    /\ g_shown' = Append(g_shown,
            IF MentionsGuard(e)
            THEN Shown("error", "Input was flagged as unsafe")
            ELSE Shown("error", e))
    /\ g_pc' = "stopped"
    /\ UNCHANGED <<g_prompt, g_response, notGuard>>

\* Line 68: the chain returns a response.
ChainReturns(r) ==
    /\ g_pc = "invoke"
    /\ g_calls' = Append(g_calls, CallOf("chain.invoke", g_prompt, FALSE))
    /\ g_response' = r
    /\ g_pc' = "validate_output"
    /\ UNCHANGED <<g_prompt, g_shown, notGuard>>

\* Lines 68-72: the chain raises e.
ChainRaises(e) ==
    /\ g_pc = "invoke"
    /\ g_calls' = Append(g_calls, CallOf("chain.invoke", g_prompt, TRUE))
    /\ g_shown' = g_shown \o <<Shown("error", "Request failed"), Shown("caption", e)>>
    /\ g_pc' = "stopped"
    /\ UNCHANGED <<g_prompt, g_response, notGuard>>

\* Lines 76-77: output_guard.validate returns and the response is written.
OutputPasses ==
    /\ g_pc = "validate_output"
    /\ g_calls' = Append(g_calls, CallOf("output_guard.validate", g_response, FALSE))
    /\ g_shown' = Append(g_shown, Shown("write", g_response))
    /\ g_pc' = "end"
    /\ UNCHANGED <<g_prompt, g_response, notGuard>>

\* A handler that shows the response below its warning.
OutputRaisesShows(e) ==
    /\ g_pc = "validate_output"
    /\ g_calls' = Append(g_calls, CallOf("output_guard.validate", g_response, TRUE))
    /\ g_shown' = g_shown \o
            <<Shown("warning", "Response was filtered"), Shown("write", g_response)>>
    /\ g_pc' = "end"
    /\ UNCHANGED <<g_prompt, g_response, notGuard>>

\* Lines 76-83: output_guard.validate raises e.
OutputRaises(e) ==
    /\ g_pc = "validate_output"
    /\ g_calls' = Append(g_calls, CallOf("output_guard.validate", g_response, TRUE))
    /\ g_shown' = Append(g_shown,
            IF MentionsGuard(e)
            THEN Shown("warning", "Response was filtered")
            ELSE Shown("error", e))
    /\ g_pc' = "end"
    /\ UNCHANGED <<g_prompt, g_response, notGuard>>

\* ------------------------------------------------------ session store
\* with_memory.py: one InMemoryChatMessageHistory per session_id.  A history
\* object is a place in heap; store maps a session_id to that place.

WM_SessionIds == {"user1", "user2", "user3"}

\* The most exchanges one history object takes in.
MaxExchanges == 1

NoSession == [session_id |-> "", object |-> 0]

SessionInit ==
    /\ store = [k \in {} |-> 0]
    /\ heap = <<>>
    /\ sess_returned = NoSession
    /\ sess_first = [k \in {} |-> 0]

\* A lookup that makes a new history on every request.
get_session_history_anew(session_id) ==
    /\ heap' = Append(heap, <<>>)
    /\ store' = DictPut(store, session_id, Len(heap) + 1)
    /\ sess_returned' = [session_id |-> session_id, object |-> store'[session_id]]
    /\ sess_first' = IF session_id \in DOMAIN sess_first
                     THEN sess_first
                     ELSE DictPut(sess_first, session_id, store'[session_id])
    /\ UNCHANGED notSession

\* Lines 26-29.
get_session_history(session_id) ==
    /\ IF session_id \notin DOMAIN store
       THEN /\ heap' = Append(heap, <<>>)
            /\ store' = DictPut(store, session_id, Len(heap) + 1)
       ELSE UNCHANGED <<heap, store>>
    /\ sess_returned' = [session_id |-> session_id, object |-> store'[session_id]]
    /\ sess_first' = IF session_id \in DOMAIN sess_first
                     THEN sess_first
                     ELSE DictPut(sess_first, session_id, store'[session_id])
    /\ UNCHANGED notSession

\* Lines 40-52: conversation.invoke adds the exchange to the history it got.
AddExchange(text, reply) ==
    /\ sess_returned # NoSession
    /\ Len(heap[sess_returned.object]) < 2 * MaxExchanges
    /\ heap' = [heap EXCEPT ![sess_returned.object] =
            @ \o <<HumanMessage(text), AIMessage(reply)>>]
    /\ UNCHANGED <<store, sess_returned, sess_first, notSession>>

\* ------------------------------------------------------ specifications

\* A specification of one part of the program keeps the other parts in the
\* state they start in.
RetrievalIdle == InitWith({<<>>})

Init ==
    InitWith(DocVecLists) /\ PrefInit /\ StoreIdle /\ ChatInit /\ GuardInit
        /\ SessionInit

InitConc ==
    InitWith(ConcDocVecLists) /\ PrefInit /\ StoreIdle /\ ChatInit /\ GuardInit
        /\ SessionInit

\* One caller: the script's own sequence of calls.
Next ==
    \/ \E k \in TopKs : Call(1, k)
    \/ EmbedDocuments(1)
    \/ AssignEmbeddings(1)
    \/ \E q \in Vectors : Rank(1, q)

Spec == Init /\ [][Next]_vars

\* Two threads calling retrieve_relevant, interleaved at every step.
NextConc ==
    \E t \in Threads :
        \/ \E k \in ConcTopKs : Call(t, k)
        \/ EmbedDocuments(t)
        \/ AssignEmbeddings(t)
        \/ \E q \in ConcVectors : Rank(t, q)

SpecConc == InitConc /\ [][NextConc]_vars

\* The agent's tool calls on the preference store.
NextPrefs ==
    \/ get_user_preferences
    \/ \E key \in PrefKeys, value \in PrefValues :
           set_user_preference(key, value)

\* The state in which no part of the program has started.
InitPrefs ==
    RetrievalIdle /\ PrefInit /\ StoreIdle /\ ChatInit /\ GuardInit
        /\ SessionInit

SpecPrefs == InitPrefs /\ [][NextPrefs]_vars

InitStore ==
    RetrievalIdle /\ PrefInit /\ StoreInit /\ ChatInit /\ GuardInit
        /\ SessionInit

\* One process: the script's loop, and save_history called on its own.
NextStore ==
    \/ \E s \in SessionIds, u \in UserTexts : RunTurn(1, s, u)
    \/ \E r \in Replies : RunTurnInvoke(1, r)
    \/ \E s \in SessionIds, m \in SavedLists : SaveHistoryCall(1, s, m)
    \/ SaveRead(1)
    \/ SaveWrite(1)

SpecStore == InitStore /\ [][NextStore]_vars

\* Two processes on the same file, each with a session of its own.
SessionOf(p) == IF p = 1 THEN "a" ELSE "b"

NextStoreConc ==
    \E p \in Procs :
        \/ \E u \in UserTexts : RunTurn(p, SessionOf(p), u)
        \/ \E r \in Replies : RunTurnInvoke(p, r)
        \/ SaveRead(p)
        \/ SaveWrite(p)

SpecStoreConc == InitStore /\ [][NextStoreConc]_vars

\* main's loop of short_term_memory.py.
NextChat ==
    \/ \E u \in UserTexts : RunChat(u)
    \/ \E r \in ChatReplies : RunChatReturn(r)

SpecChat == InitPrefs /\ [][NextChat]_vars

\* The runs of the Streamlit script.
NextGuard ==
    \/ \E k \in BOOLEAN, u \in Prompts \cup {""} : ScriptRun(k, u)
    \/ InputPasses
    \/ \E e \in ErrorTexts : InputRaises(e)
    \/ \E r \in Responses : ChainReturns(r)
    \/ \E e \in ErrorTexts : ChainRaises(e)
    \/ OutputPasses
    \/ \E e \in ErrorTexts : OutputRaises(e)

SpecGuard == InitPrefs /\ [][NextGuard]_vars

\* Requests for any session's history, and exchanges added to it.
NextSession ==
    \/ \E s \in WM_SessionIds : get_session_history(s)
    \/ \E u \in UserTexts, r \in ChatReplies : AddExchange(u, r)

SpecSession == InitPrefs /\ [][NextSession]_vars

\* ------------------------------------------------------------- claims

\* The corpus a serial execution ranks: zip(embed_documents(...), POLICY_SNIPPETS).
FullCorpus == Zip(docVecs, POLICY_SNIPPETS)

\* The corpus entry a text was stored with.
EntryOf(corpus, text) == CHOOSE j \in 1..Len(corpus) : corpus[j][2] = text

\* The score of a text under query q, from the corpus.
ScoreOf(corpus, q, text) == Dot(q, corpus[EntryOf(corpus, text)][1])

Range(s) == {s[i] : i \in 1..Len(s)}

PosIn(s, x) == CHOOSE i \in 1..Len(s) : s[i] = x

RECURSIVE IndexSum(_, _, _)
\* The sum over dimensions 1..d of a[i] * b[i].
IndexSum(a, b, d) == IF d = 0 THEN 0 ELSE IndexSum(a, b, d - 1) + a[d] * b[d]

\* C1: for a non-empty corpus and k >= 1, retrieve_relevant returns exactly
\* min(k, len(corpus)) results (all entries when k > len(corpus)).
C1_ResultLength ==
    \A t \in Threads :
        (pc[t] = "done" /\ snippet_embeddings # <<>> /\ top_k[t] >= 1)
            => Len(result[t]) = Min(top_k[t], Len(snippet_embeddings))

\* C1 witness: a call with k larger than the full four-entry corpus returned
\* all four entries.
C1_Witness ==
    /\ pc[1] = "done"
    /\ Len(snippet_embeddings) = NumSnippets
    /\ top_k[1] > NumSnippets
    /\ Len(result[1]) = NumSnippets

\* C2: ranking is stable: of two corpus entries with equal scores, the one
\* earlier in the corpus comes earlier in the ranked list, and whenever the
\* later one is returned the earlier one is returned before it.
C2_StableTies ==
    \A t \in Threads :
        pc[t] = "done" =>
            \A i, j \in 1..Len(snippet_embeddings) :
                (i < j /\ Dot(q_embed[t], snippet_embeddings[i][1])
                            = Dot(q_embed[t], snippet_embeddings[j][1]))
                    => /\ PosIn(TextsOf(scored[t]), snippet_embeddings[i][2])
                            < PosIn(TextsOf(scored[t]), snippet_embeddings[j][2])
                       /\ snippet_embeddings[j][2] \in Range(result[t])
                            => /\ snippet_embeddings[i][2] \in Range(result[t])
                               /\ PosIn(result[t], snippet_embeddings[i][2])
                                    < PosIn(result[t], snippet_embeddings[j][2])

\* C2 witness: two entries tie for the last returned place, a third entry
\* scores higher, k = 2, and the earlier of the tied pair is the one returned
\* (the shape of the spec's scenario A).
C2_Witness ==
    /\ pc[1] = "done"
    /\ top_k[1] = 2
    /\ \E i, j, c \in 1..Len(snippet_embeddings) :
        /\ i < j
        /\ ScoreOf(snippet_embeddings, q_embed[1], snippet_embeddings[i][2])
             = ScoreOf(snippet_embeddings, q_embed[1], snippet_embeddings[j][2])
        /\ ScoreOf(snippet_embeddings, q_embed[1], snippet_embeddings[c][2])
             > ScoreOf(snippet_embeddings, q_embed[1], snippet_embeddings[i][2])
        /\ result[1] = <<snippet_embeddings[c][2], snippet_embeddings[i][2]>>

\* C3: the scores of the returned results are non-increasing in output order,
\* and no entry left out scores strictly more than a returned one.
C3_ScoresNonIncreasing ==
    \A t \in Threads :
        pc[t] = "done" =>
            /\ \A i \in 1..(Len(result[t]) - 1) :
                ScoreOf(snippet_embeddings, q_embed[t], result[t][i])
                    >= ScoreOf(snippet_embeddings, q_embed[t], result[t][i + 1])
            /\ \A j \in 1..Len(snippet_embeddings) :
                snippet_embeddings[j][2] \notin Range(result[t])
                    => \A i \in 1..Len(result[t]) :
                        Dot(q_embed[t], snippet_embeddings[j][1])
                            <= ScoreOf(snippet_embeddings, q_embed[t], result[t][i])

\* C3 witness: a call returned two results of different scores, out of corpus
\* order, and left a lower-scoring entry out.
C3_Witness ==
    /\ pc[1] = "done"
    /\ Len(result[1]) = 2
    /\ result[1][1] > result[1][2]
    /\ ScoreOf(snippet_embeddings, q_embed[1], result[1][1])
         > ScoreOf(snippet_embeddings, q_embed[1], result[1][2])
    /\ \E j \in 1..Len(snippet_embeddings) :
        /\ snippet_embeddings[j][2] \notin Range(result[1])
        /\ Dot(q_embed[1], snippet_embeddings[j][1])
             < ScoreOf(snippet_embeddings, q_embed[1], result[1][2])

\* C4: the score recorded for a corpus entry whose embedding has the query's
\* length D is the sum over dimensions 1..D of the elementwise products.
C4_ScoreIsDotProduct ==
    \A t \in Threads :
        pc[t] = "done" =>
            \A i \in 1..Len(scored[t]) :
                LET vec == snippet_embeddings[EntryOf(snippet_embeddings, scored[t][i][2])][1]
                IN  Len(vec) = Len(q_embed[t])
                        => scored[t][i][1] = IndexSum(q_embed[t], vec, Len(vec))

\* C4 witness: an entry of the query's two dimensions was scored 2, both
\* dimensions contributing.
C4_Witness ==
    /\ pc[1] = "done"
    /\ Len(q_embed[1]) = 2
    /\ \E i \in 1..Len(scored[1]) :
        /\ Len(snippet_embeddings[EntryOf(snippet_embeddings, scored[1][i][2])][1]) = 2
        /\ scored[1][i][1] >= 2

\* Every corpus entry has the query's dimension.
DimensionsMatch(q, corpus) ==
    \A i \in 1..Len(corpus) : Len(corpus[i][1]) = Len(q)

\* C5 (as claimed): a call whose query dimension differs from a corpus
\* entry's dimension fails with DimensionMismatch and never returns a result;
\* stated for calls with a valid k, so that a returning call has scored a
\* pair of vectors of different lengths.
C5_MismatchNeverReturns ==
    \A t \in Threads :
        (pc[t] = "done" /\ top_k[t] >= 1)
            => DimensionsMatch(q_embed[t], snippet_embeddings)

\* C6 (as claimed): a call over a corpus of zero entries fails with
\* EmptyCorpus and never returns a result list; stated for calls with a
\* valid k.
C6_EmptyCorpusNeverReturns ==
    \A t \in Threads :
        (pc[t] = "done" /\ top_k[t] >= 1) => snippet_embeddings # <<>>

\* C7 (as claimed): a call with k < 1 fails with InvalidK and never returns a
\* result; stated for calls over a non-empty corpus of the query's dimension.
C7_InvalidKNeverReturns ==
    \A t \in Threads :
        (pc[t] = "done" /\ snippet_embeddings # <<>>
            /\ DimensionsMatch(q_embed[t], snippet_embeddings))
            => top_k[t] >= 1

SerialScored(q) == SortByKey(ScoreAll(q, FullCorpus))

\* C9: under any interleaving of two threads' calls, a thread about to rank
\* sees the fully populated corpus, never a partial one, and every call
\* returns what it would return if the calls ran one after another.
C9_ConcurrentAsSerial ==
    \A t \in Threads :
        /\ pc[t] = "embed_query" => snippet_embeddings = FullCorpus
        /\ pc[t] = "done" =>
            /\ scored[t] = SerialScored(q_embed[t])
            /\ result[t] = TextsOf(SliceTo(SerialScored(q_embed[t]), top_k[t]))

\* C9 witness: the race on the lazy population, with a result returned:
\* thread 2 found the corpus empty and is about to assign it again, while
\* thread 1 has populated it, ranked it and returned two texts.
C9_Witness ==
    /\ pc[1] = "done"
    /\ Len(result[1]) = 2
    /\ pc[2] = "assign"
    /\ vecs[2] # <<>>

\* C10: two calls of one process given the same query embedding and the same
\* k return the same texts in the same order with the same scores, whatever
\* calls came before either.
C10_Deterministic ==
    \A t1, t2 \in Threads :
        (pc[t1] = "done" /\ pc[t2] = "done"
            /\ q_embed[t1] = q_embed[t2] /\ top_k[t1] = top_k[t2])
            => (result[t1] = result[t2] /\ scored[t1] = scored[t2])

\* C10 witness: two calls given the same query and k have both returned,
\* with scores that differ between entries.
C10_Witness ==
    /\ pc[1] = "done" /\ pc[2] = "done"
    /\ q_embed[1] = q_embed[2] /\ top_k[1] = top_k[2]
    /\ result[1] # <<>>
    /\ \E i, j \in 1..Len(scored[1]) : scored[1][i][1] # scored[1][j][1]

\* C11: over any sequence of retrieve_relevant calls embed_documents is
\* executed at most once, and once _snippet_embeddings is populated its value
\* is the same in every later state.
C11_BuiltOnce ==
    [][/\ embed_calls' <= 1
       /\ snippet_embeddings # <<>> => snippet_embeddings' = snippet_embeddings]_vars

\* C12: when run_turn(session_id, user_text) completes with reply r,
\* load_history(session_id) returns the most recent MAX_MESSAGES of the
\* history stored before followed by HumanMessage(user_text) and
\* AIMessage(r), and these two are its last two messages.
C12_TurnIsStored ==
    [][\A p \in Procs :
        (rt_op[p] = "run_turn" /\ rt_pc[p] = "write" /\ rt_pc'[p] = "done") =>
            LET human == HumanMessage(rt_user[p])
                ai == AIMessage(rt_reply[p])
                before == load_history(store_file, rt_session[p])
                after == load_history(store_file', rt_session[p])
            IN  /\ after = KeepLast(before \o <<human, ai>>, PM_MAX_MESSAGES)
                /\ Len(after) >= 2
                /\ after[Len(after) - 1] = human
                /\ after[Len(after)] = ai]_vars

\* C12 witness: a run_turn has completed on a session whose stored history
\* was full, so its save cut the list and the store holds MAX_MESSAGES.
C12_Witness ==
    /\ rt_op[1] = "run_turn"
    /\ rt_pc[1] = "done"
    /\ Len(rt_messages[1]) > PM_MAX_MESSAGES
    /\ Len(load_history(store_file, rt_session[1])) = PM_MAX_MESSAGES

\* C13: when the list run_chat returns is fed back on the next call, the
\* list main keeps never holds more than MAX_MESSAGES (20) messages.
C13_KeptCapped ==
    chat_pc = "input" => Len(chat_messages) <= STM_MAX_MESSAGES

CallsOf(fn) == {i \in 1..Len(g_calls) : g_calls[i].fn = fn}

\* C14: the chain is invoked only after input_guard.validate returned on the
\* same prompt without raising; when it raises, an error is shown, the run
\* stops, and neither the chain nor the output guard is called in this run.
C14_InputGuardFirst ==
    /\ \A i \in CallsOf("chain.invoke") :
           \E j \in 1..(i - 1) :
               g_calls[j] = CallOf("input_guard.validate", g_calls[i].arg, FALSE)
    /\ \A j \in CallsOf("input_guard.validate") :
           g_calls[j].raised =>
               /\ g_pc = "stopped"
               /\ \E i \in 1..Len(g_shown) : g_shown[i].kind = "error"
               /\ CallsOf("chain.invoke") = {}
               /\ CallsOf("output_guard.validate") = {}

\* C14 witness: input validation raised and the run has stopped.
C14_Witness ==
    /\ g_pc = "stopped"
    /\ g_calls = <<CallOf("input_guard.validate", "p2", TRUE)>>

\* C15: a response is written to the page only after output_guard.validate
\* returned on that response without raising; when output validation raises
\* or the chain fails, no response is written.
C15_OutputGuardFirst ==
    /\ \A i \in 1..Len(g_shown) :
           g_shown[i].kind = "write" =>
               \E j \in 1..Len(g_calls) :
                   g_calls[j] = CallOf("output_guard.validate", g_shown[i].text, FALSE)
    /\ (\E j \in CallsOf("output_guard.validate") \cup CallsOf("chain.invoke") :
            g_calls[j].raised)
           => \A i \in 1..Len(g_shown) : g_shown[i].kind # "write"

\* C15 witness: the output guard let a response through and it was written.
C15_Witness ==
    /\ g_pc = "end"
    /\ g_shown = <<Shown("write", "r2")>>

\* C16: store holds exactly one history object per session_id ever
\* requested: a session_id keeps the object its first request made, and
\* different session_ids have different objects.
C16_OneHistoryPerSession ==
    /\ DOMAIN store = DOMAIN sess_first
    /\ \A s \in DOMAIN store : store[s] = sess_first[s]
    /\ \A s1, s2 \in DOMAIN store : s1 # s2 => store[s1] # store[s2]
    /\ Len(heap) = Cardinality(DOMAIN store)
    /\ sess_returned # NoSession =>
           sess_returned.object = store[sess_returned.session_id]

\* C16 witness: user1 was requested first, two other sessions after it, and
\* a later request for user1 returned the first object with its exchange.
C16_Witness ==
    /\ Len(heap) = 3
    /\ sess_returned = [session_id |-> "user1", object |-> 1]
    /\ Len(heap[1]) = 2
    /\ Len(heap[3]) = 2

\* sep.split: the pieces of s between the separators.
RECURSIVE SplitOn(_, _)
SplitOn(s, sep) ==
    IF \A i \in 1..Len(s) : s[i] # sep
    THEN <<s>>
    ELSE LET j == CHOOSE i \in 1..Len(s) :
                      s[i] = sep /\ \A h \in 1..(i - 1) : s[h] # sep
         IN  <<SubSeq(s, 1, j - 1)>> \o SplitOn(SubSeq(s, j + 1, Len(s)), sep)

\* C17: get_user_preferences reports for every key ever set exactly the
\* value set last, one 'key: value' item per key; it returns 'No preferences
\* stored yet.' exactly when nothing has been set; and the store holds what
\* the set calls put there, whatever get calls came between.
C17_ReportsLatest ==
    /\ DictKeys(user_prefs) = DOMAIN pref_last
    /\ Len(user_prefs) = Cardinality(DOMAIN pref_last)
    /\ \A i \in 1..Len(user_prefs) : user_prefs[i][2] = pref_last[user_prefs[i][1]]
    /\ pref_op = "get" =>
           /\ (pref_out = NO_PREFS) <=> (DOMAIN pref_last = {})
           /\ DOMAIN pref_last # {} =>
                  LET items == SplitOn(pref_out, " | ")
                  IN  /\ Len(items) = Cardinality(DOMAIN pref_last)
                      /\ \A k \in DOMAIN pref_last :
                             \E i \in 1..Len(items) :
                                 items[i] = <<k, ": ", pref_last[k]>>

\* C17 witness: two keys are stored and get_user_preferences has reported
\* both, in the order they were first set.
C17_Witness ==
    /\ pref_op = "get"
    /\ user_prefs = <<<<"theme", "en">>, <<"lang", "dark">>>>
    /\ pref_out = <<"theme", ": ", "en", " | ", "lang", ": ", "dark">>

\* C18: the history run_chat passes to the chain never has more than
\* MAX_MESSAGES (20) messages and ends with the HumanMessage of the current
\* user_text.
C18_HistoryCapped ==
    chat_pc = "invoke" =>
        /\ Len(rc_messages) <= STM_MAX_MESSAGES
        /\ Len(rc_messages) >= 1
        /\ rc_messages[Len(rc_messages)] = HumanMessage(rc_user)

\* C18 witness: main's list grew past the cap and run_chat passes a cut list
\* of MAX_MESSAGES messages.
C18_Witness ==
    /\ chat_pc = "invoke"
    /\ Len(chat_messages) > STM_MAX_MESSAGES
    /\ Len(rc_messages) = STM_MAX_MESSAGES

\* C19: every session's stored history has at most MAX_MESSAGES (50)
\* messages, and what a save stores is the last MAX_MESSAGES of the list
\* being saved, in order.
C19_StoredCapped ==
    /\ \A s \in DOMAIN store_file.data :
           Len(store_file.data[s]) <= PM_MAX_MESSAGES
    /\ \A p \in Procs :
           rt_pc[p] = "done" =>
               LET last == KeepLast(rt_messages[p], PM_MAX_MESSAGES)
               IN  store_file.data[rt_session[p]] =
                       [i \in 1..Len(last) |-> message_to_dict(last[i])]

\* C19 witness: save_history was given MAX_MESSAGES + 1 messages and the
\* session's stored history has MAX_MESSAGES.
C19_Witness ==
    /\ rt_op[1] = "save_history"
    /\ rt_pc[1] = "done"
    /\ Len(rt_messages[1]) = PM_MAX_MESSAGES + 1
    /\ Len(store_file.data[rt_session[1]]) = PM_MAX_MESSAGES

\* C20: after two concurrent run_turn calls for different session_ids have
\* both completed, the store holds the new turn of both sessions.
C20_BothTurnsStored ==
    (rt_pc[1] = "done" /\ rt_pc[2] = "done") =>
        \A p \in Procs :
            LET h == load_history(store_file, rt_session[p])
            IN  /\ Len(h) >= 2
                /\ h[Len(h) - 1] = HumanMessage(rt_user[p])
                /\ h[Len(h)] = AIMessage(rt_reply[p])

\* C21: save_history(session_id, messages) and run_turn(session_id, ...)
\* change only the entry of session_id: no step of a call removes another
\* session's entry from the store or changes what load_history returns for
\* another session, and the store changes at no step but the call's write.
C21_OtherSessionsKept ==
    [][\A s \in SessionIds :
        LET writes(p) == /\ rt_pc[p] = "write"
                         /\ rt_pc'[p] = "done"
                         /\ rt_session[p] = s
        IN  (\A p \in Procs : ~writes(p)) =>
                /\ s \in DOMAIN store_file.data => s \in DOMAIN store_file'.data
                /\ s \in DOMAIN store_file'.data => s \in DOMAIN store_file.data
                /\ load_history(store_file', s) = load_history(store_file, s)]_vars

\* C21 witness: a run_turn for session "b" has completed and stored its turn
\* while session "a" holds a full history in the same file.
C21_Witness ==
    /\ rt_op[1] = "run_turn"
    /\ rt_pc[1] = "done"
    /\ rt_session[1] = "b"
    /\ DOMAIN store_file.data = {"a", "b"}
    /\ load_history(store_file, "a") = History(PM_MAX_MESSAGES)
    /\ Len(load_history(store_file, "b")) = 2

====
